---- MODULE Spec2Model ----
(***************************************************************************)
(* Retrieval pipeline of the textbook study assistant                      *)
(* (backend/app/services/rag.py, rag_multilingual.py, qdrant.py,           *)
(* embeddings.py).  Each call of a public coroutine is a request; an       *)
(* action is the code a coroutine runs between two awaits of a             *)
(* collaborator (OpenAI embeddings, Qdrant query_points), which is the     *)
(* granularity at which asyncio interleaves requests.                      *)
(***************************************************************************)
EXTENDS Integers, Sequences, FiniteSets, TLC

\* ------------------------------------------------------------------ bounds
MaxPerLang == 3
MaxLimit == 4
MaxMinResults == 3

\* ------------------------------------------------------------- vocabulary
AllRequests == {1, 2}

\* LanguageCode = Literal["en", "ur", "ja"]
LanguageCodes == {"en", "ur", "ja"}

\* Python None for an optional string argument.
None == "None"

\* Values of the language argument of the rag.py retrieval functions.
LanguageArgs == LanguageCodes \cup {None}

Questions == {"what is ros", ""}
SelectedTexts == {"bipedal gait", " "}
DocPaths == {"docs/a.md", "docs/b.md"}
Limits == 1..MaxLimit
MinResultsArgs == 1..MaxMinResults

Min(a, b) == IF a < b THEN a ELSE b

\* str.strip() of the texts of the model: "" and " " strip to "".
Strip(text) == IF text \in {"", " "} THEN "" ELSE text

\* ----------------------------------------------------------------- errors
\* An exception: its class, the prefix a handler of this repository put in
\* front of the message when re-raising it, and the original message.
NoError == [type |-> "none", prefix |-> "", msg |-> ""]
EmptyTextError ==
    [type |-> "ValueError", prefix |-> "", msg |-> "Text cannot be empty"]
UnexpectedKeywordError ==
    [type |-> "TypeError", prefix |-> "",
     msg |-> "search_similar() got an unexpected keyword argument 'language'"]
MissingAttributeError ==
    [type |-> "AttributeError", prefix |-> "",
     msg |-> "'ChatRequest' object has no attribute 'preferredLanguage'"]

\* Classes of the openai package that derive from OpenAIError.
OpenAIErrorClasses ==
    {"OpenAIError", "RateLimitError", "APITimeoutError", "AuthenticationError"}

\* What the OpenAI embeddings endpoint can raise: an OpenAIError (quota,
\* timeout, authentication) or an exception outside that hierarchy.
EmbeddingProviderFailures ==
    {[type |-> "RateLimitError", prefix |-> "", msg |-> "rate limit"],
     [type |-> "CancelledError", prefix |-> "", msg |-> "cancelled"]}

\* What QdrantClient.query_points can raise.
QueryProviderFailures ==
    {[type |-> "UnexpectedResponse", prefix |-> "",
      msg |-> "Index required but not found"]}

\* embed_text re-raising the provider's failure as a plain Exception.
EmbedTextRaisesException(e) ==
    [type |-> "Exception", prefix |-> "Failed to generate embedding: ", msg |-> e.msg]

\* embed_text: except OpenAIError as e: raise OpenAIError(f"Failed to
\* generate embedding: {str(e)}") from e; any other exception is not caught.
EmbedTextRaises(e) ==
    IF e.type \in OpenAIErrorClasses
    THEN [type |-> "OpenAIError", prefix |-> "Failed to generate embedding: ",
          msg |-> e.msg]
    ELSE e

\* ------------------------------------------------------------- the index
LangIdx(l) == CASE l = "ur" -> 0 [] l = "en" -> 1 [] l = "ja" -> 2

\* The points of a collection holding n[l] chunks of language l; the chunks
\* of a language alternate between the two documents.
PointsOf(n) ==
    {[language |-> c[1], i |-> c[2],
      doc_path |-> IF c[2] % 2 = 1 THEN "docs/a.md" ELSE "docs/b.md"] :
        c \in {d \in LanguageCodes \X (1..MaxPerLang) : d[2] <= n[d[1]]}}

Rank(p) == 3 * (p.i - 1) + LangIdx(p.language)

\* embed_text returns response.data[0].embedding: the vector of the text.
Embedding(text) == [of |-> text]
NoVector == [of |-> None]

\* Cosine similarity of a point to a query vector, as an integer: the
\* question and the selected text rank the collection in opposite orders.
Score(p, vector) == IF vector.of \in Questions THEN 100 - Rank(p) ELSE Rank(p)

RECURSIVE SetToSeq(_)
SetToSeq(S) ==
    IF S = {} THEN <<>>
    ELSE LET x == CHOOSE y \in S : \A z \in S : Rank(y) <= Rank(z)
         IN <<x>> \o SetToSeq(S \ {x})

\* s[:k] for k >= 0.
Take(s, k) == SubSeq(s, 1, IF k < Len(s) THEN k ELSE Len(s))

\* QdrantClient.query_points(query, query_filter, limit): the points matching
\* every filter condition, by descending score, at most limit of them.
QueryPoints(points, vector, doc_path, language, limit) ==
    LET matching == {p \in points :
                        /\ (doc_path # None => p.doc_path = doc_path)
                        /\ (language # None => p.language = language)}
        ranked == SortSeq(SetToSeq(matching),
                          LAMBDA a, b : Score(a, vector) > Score(b, vector))
    IN Take(ranked, limit)

\* ------------------------------------------------------------------ state
VARIABLES
    collection,    \* the points of the Qdrant collection
    clients,       \* the lazily created module-level clients
    req,           \* req[r]: the call and its arguments
    pc,            \* pc[r]: where the coroutine of r is suspended
    query_vector,  \* query_vector[r]: the local of that name
    primary,       \* primary[r]: primary_results of search_with_fallback
    ret,           \* ret[r]: the value returned
    err,           \* err[r]: the exception the call ended with
    provider_err,  \* provider_err[r]: the exception the collaborator raised
    calls,         \* calls[r]: the collaborator calls issued, in order
    fn_call,       \* a direct call of a function of rag.py: its arguments
    fn_pc,         \* "idle", "called", "returned" or "raised"
    fn_result,     \* the value that call returned
    fn_err,        \* the exception that call raised
    chunker,       \* the MarkdownChunker: chunk_size, chunk_overlap
    document,      \* the text given to chunk_document, as tokens
    cd_pc,         \* where chunk_document is
    cd_chunks,     \* chunks of chunk_by_headings
    cd_i,          \* i of the loop over headings
    cd_chunk_index,\* chunk_index of chunk_by_headings
    sp,            \* the locals of _split_long_text
    up,            \* upsert_embeddings: the call in progress and those completed
    chat_db,       \* the AsyncSession of save_chat_interaction and the rows stored
    audio_cache,   \* _audio_cache of api/voice.py, in insertion order
    tts            \* the calls of _cache_audio made and what the last returned

retrievalVars == <<collection, clients, req, pc, query_vector, primary, ret, err,
                   provider_err, calls>>
answerVars == <<fn_call, fn_pc, fn_result, fn_err>>
chunkerVars == <<chunker, document, cd_pc, cd_chunks, cd_i, cd_chunk_index, sp>>

storageVars == <<up, chat_db, audio_cache, tts>>

vars == <<retrievalVars, answerVars, chunkerVars, storageVars>>

\* ----------------------------------------------------------------- inputs
Call(kind, question, selected_text, doc_path, limit, language, fallback_language, min_results, mode) ==
    [kind |-> kind, question |-> question, selected_text |-> selected_text,
     doc_path |-> doc_path, limit |-> limit, language |-> language,
     fallback_language |-> fallback_language, min_results |-> min_results,
     mode |-> mode]

NoCall == Call("none", "", "", None, 0, None, None, 0, "")

\* retrieve_chunks_whole_book(question, limit, language)
WholeBookCalls ==
    {Call("whole_book", q, "", None, lim, l, None, 0, "") :
        q \in Questions, lim \in Limits, l \in LanguageArgs}

\* retrieve_chunks_selection(question, selected_text, doc_path, limit, language)
SelectionCalls ==
    {Call("selection", "what is ros", s, d, lim, l, None, 0, "") :
        s \in SelectedTexts, d \in DocPaths, lim \in Limits, l \in LanguageArgs}

\* search_with_fallback(query, primary_language, fallback_language, limit, min_results)
FallbackCalls ==
    {Call("with_fallback", q, "", None, lim, l, f, m, "") :
        q \in Questions, lim \in Limits, l \in LanguageCodes,
        f \in LanguageCodes, m \in MinResultsArgs}

\* Settings.CHUNK_RETRIEVAL_LIMIT
CHUNK_RETRIEVAL_LIMIT == 10

\* answer_chat_request(request): request is a ChatRequest, whose fields are
\* mode, question, selectedText, docPath and userId.
ChatCalls ==
    {Call("chat", "what is ros", s, d, 0, None, None, 0, m) :
        s \in {"bipedal gait", None}, d \in {"docs/a.md", None},
        m \in {"whole-book", "selection"}}

\* POST /api/chat: chat_endpoint(request), request a ChatRequest.
EndpointCalls ==
    {Call("endpoint", q, s, d, 0, None, None, 0, m) :
        q \in {"what is ros", "hi"}, s \in {"bipedal gait", " ", None},
        d \in {"docs/a.md", None}, m \in {"whole-book", "selection"}}

Collections ==
    {PointsOf(n) : n \in {m \in [LanguageCodes -> 0..MaxPerLang] : m["ja"] <= 1}}

NoOutcome == [returned |-> FALSE, chunks |-> <<>>, fallback_applied |-> FALSE]
Outcome(chunks, fallback_applied) ==
    [returned |-> TRUE, chunks |-> chunks, fallback_applied |-> fallback_applied]

EmbedCall(text) ==
    [op |-> "embed", text |-> text, vector |-> NoVector, limit |-> 0,
     doc_path |-> None, language |-> None]
SearchCall(vector, limit, doc_path, language) ==
    [op |-> "search", text |-> "", vector |-> vector, limit |-> limit,
     doc_path |-> doc_path, language |-> language]


\* ------------------------------------------------------------------- Init
Idle(r) == pc[r] = "idle"
Finished(r) == pc[r] \in {"returned", "raised"}

\* No function of rag.py has been called directly.
FunctionCall(fn, chunks, max_citations, num_chunks, fallback_applied, language) ==
    [fn |-> fn, chunks |-> chunks, max_citations |-> max_citations,
     num_chunks |-> num_chunks, fallback_applied |-> fallback_applied,
     language |-> language]

NoFunctionCall ==
    /\ fn_call = FunctionCall("none", <<>>, 0, 0, FALSE, "en")
    /\ fn_pc = "idle"
    /\ fn_result = <<>>
    /\ fn_err = NoError

\* The locals of _split_long_text before it is called.
NoSplit ==
    [from |-> 0, total_tokens |-> 0, heading |-> 0, chunks |-> <<>>,
     current_pos |-> 0, chunk_index |-> 0]

\* No chunker has been built.
NoChunker ==
    /\ chunker = [kind |-> "none", chunk_size |-> 0, chunk_overlap |-> 0]
    /\ document = <<>>
    /\ cd_pc = "idle"
    /\ cd_chunks = <<>>
    /\ cd_i = 0
    /\ cd_chunk_index = 0
    /\ sp = NoSplit

\* upsert_embeddings has not been called.
NoUpsert ==
    up = [pc |-> "idle", chunks |-> <<>>, points |-> {}, used |-> {}, history |-> <<>>]

\* save_chat_interaction has not been called.
NoChatStorage ==
    chat_db = [pc |-> "idle", user_id |-> None, mode |-> None, session_id |-> 0,
               committed |-> {},
               pending |-> {}, before |-> {}, interactions |-> 0]

\* _audio_cache: dict[str, tuple[bytes, str]] = {}
NoAudio ==
    /\ audio_cache = <<>>
    /\ tts = [calls |-> 0, collisions |-> 0, audio_id |-> 0, audio |-> 0]

\* Nothing is being stored.
NoStorage == NoUpsert /\ NoChatStorage /\ NoAudio

InitLocals ==
    /\ clients = [openai |-> FALSE, qdrant_sync |-> FALSE]
    /\ query_vector = [r \in AllRequests |-> NoVector]
    /\ primary = [r \in AllRequests |-> <<>>]
    /\ ret = [r \in AllRequests |-> NoOutcome]
    /\ err = [r \in AllRequests |-> NoError]
    /\ provider_err = [r \in AllRequests |-> NoError]
    /\ calls = [r \in AllRequests |-> <<>>]

\* One call, made against any collection.
Init ==
    /\ collection \in Collections
    /\ \E c \in WholeBookCalls \cup SelectionCalls \cup FallbackCalls \cup ChatCalls
                   \cup EndpointCalls :
           req = [r \in AllRequests |-> IF r = 1 THEN c ELSE NoCall]
    /\ pc = [r \in AllRequests |-> IF r = 1 THEN "start" ELSE "idle"]
    /\ InitLocals
    /\ NoFunctionCall
    /\ NoChunker
    /\ NoStorage

\* ---------------------------------------------------------- shared steps
Raise(r, e) ==
    /\ pc' = [pc EXCEPT ![r] = "raised"]
    /\ err' = [err EXCEPT ![r] = e]

Return(r, chunks, fallback_applied) ==
    /\ pc' = [pc EXCEPT ![r] = "returned"]
    /\ ret' = [ret EXCEPT ![r] = Outcome(chunks, fallback_applied)]

\* embed_text up to its await: the empty-text check, get_openai_client(),
\* client.embeddings.create(input=text).
CallEmbedText(r, text, suspended_at) ==
    IF Strip(text) = ""
    THEN /\ Raise(r, EmptyTextError)
         /\ UNCHANGED <<clients, calls>>
    ELSE /\ clients' = [clients EXCEPT !.openai = TRUE]
         /\ calls' = [calls EXCEPT ![r] = Append(@, EmbedCall(text))]
         /\ pc' = [pc EXCEPT ![r] = suspended_at]
         /\ UNCHANGED err

\* search_similar / search_with_language_filter up to the await of
\* asyncio.to_thread(sync_client.query_points, ...).
CallQueryPoints(r, vector, limit, doc_path, language, suspended_at) ==
    /\ clients' = [clients EXCEPT !.qdrant_sync = TRUE]
    /\ calls' = [calls EXCEPT ![r] = Append(@, SearchCall(vector, limit, doc_path, language))]
    /\ pc' = [pc EXCEPT ![r] = suspended_at]

\* The embeddings endpoint raised e: embed_text re-raises, nothing catches it.
EmbeddingFailed(r, e) ==
    /\ provider_err' = [provider_err EXCEPT ![r] = e]
    /\ Raise(r, EmbedTextRaises(e))

\* query_points raised e: neither search function catches it.
QueryFailed(r, e) ==
    /\ provider_err' = [provider_err EXCEPT ![r] = e]
    /\ Raise(r, e)

\* One query_vector shared by every coroutine, as a module-level global.
ModuleLevelQueryVector(r) == query_vector[1]

\* The local query_vector of the coroutine of r.
LocalQueryVector(r) == query_vector[r]

\* ------------------------------------------- retrieve_chunks_whole_book
\* fallback_applied starting out set.
InitialFallbackAppliedSet == TRUE

\* rag.py:102, fallback_applied = False
InitialFallbackApplied == FALSE

WB_Call(r) ==
    /\ pc[r] = "start"
    /\ req[r].kind = "whole_book"
    /\ CallEmbedText(r, req[r].question, "wb_await_embed")
    /\ UNCHANGED <<collection, req, query_vector, primary, ret, provider_err>>
    /\ UNCHANGED <<answerVars, chunkerVars, storageVars>>

WB_EmbedDone(r) ==
    /\ pc[r] = "wb_await_embed"
    /\ \/ /\ \E e \in EmbeddingProviderFailures : EmbeddingFailed(r, e)
          /\ UNCHANGED <<collection, clients, req, query_vector, primary, ret, calls>>
       \/ /\ query_vector' = [query_vector EXCEPT ![r] = Embedding(req[r].question)]
          /\ IF req[r].language # None
             THEN \* search_similar(query_vector=..., limit=..., language=language):
                  \* search_similar has no parameter named language.
                  /\ Raise(r, UnexpectedKeywordError)
                  /\ UNCHANGED <<clients, calls>>
             ELSE /\ CallQueryPoints(r, Embedding(req[r].question), req[r].limit,
                                     None, None, "wb_await_search")
                  /\ UNCHANGED err
          /\ UNCHANGED <<collection, req, primary, ret, provider_err>>
    /\ UNCHANGED <<answerVars, chunkerVars, storageVars>>

WB_SearchDone(r) ==
    /\ pc[r] = "wb_await_search"
    /\ \/ /\ \E e \in QueryProviderFailures : QueryFailed(r, e)
          /\ UNCHANGED ret
       \/ /\ Return(r, QueryPoints(collection, LocalQueryVector(r), None, None, req[r].limit),
                    InitialFallbackApplied)
          /\ UNCHANGED <<err, provider_err>>
    /\ UNCHANGED <<collection, clients, req, query_vector, primary, calls>>
    /\ UNCHANGED <<answerVars, chunkerVars, storageVars>>

\* -------------------------------------------- retrieve_chunks_selection
SEL_Call(r) ==
    /\ pc[r] = "start"
    /\ req[r].kind = "selection"
    /\ CallEmbedText(r, req[r].selected_text, "sel_await_embed")
    /\ UNCHANGED <<collection, req, query_vector, primary, ret, provider_err>>
    /\ UNCHANGED <<answerVars, chunkerVars, storageVars>>

SEL_EmbedDone(r) ==
    /\ pc[r] = "sel_await_embed"
    /\ \/ /\ \E e \in EmbeddingProviderFailures : EmbeddingFailed(r, e)
          /\ UNCHANGED query_vector
       \/ \* search_similar(query_vector=..., limit=..., doc_path=...,
          \* language=language): the keyword is passed whatever its value.
          /\ query_vector' = [query_vector EXCEPT ![r] = Embedding(req[r].selected_text)]
          /\ Raise(r, UnexpectedKeywordError)
          /\ UNCHANGED provider_err
    /\ UNCHANGED <<collection, clients, req, primary, ret, calls>>
    /\ UNCHANGED <<answerVars, chunkerVars, storageVars>>

\* ------------------------------------------------- search_with_fallback
\* The fallback results put in front of the primary ones.
MergeResultsFallbackFirst(primary_results, fallback_results) ==
    fallback_results \o primary_results

\* rag_multilingual.py:543, merged_results = primary_results + fallback_results
MergeResults(primary_results, fallback_results) == primary_results \o fallback_results

\* The fallback decided on fewer results than min_results + 1.
EnoughResultsAbove(primary_results, min_results) == Len(primary_results) > min_results

\* if len(primary_results) >= min_results: return primary_results, False
EnoughResults(primary_results, min_results) == Len(primary_results) >= min_results

\* The fallback search asked for one result less than the remaining needed.
RemainingLimitLessOne(limit, primary_results) == limit - Len(primary_results) - 1

\* limit=limit - len(primary_results), the remaining needed results
RemainingLimit(limit, primary_results) == limit - Len(primary_results)

\* search_with_language_filter(query, primary_language, limit) up to the
\* await of its embedding (every language of the model passes its check).
SWF_Call(r) ==
    /\ pc[r] = "start"
    /\ req[r].kind = "with_fallback"
    /\ CallEmbedText(r, req[r].question, "swf_await_embed")
    /\ UNCHANGED <<collection, req, query_vector, primary, ret, provider_err>>
    /\ UNCHANGED <<answerVars, chunkerVars, storageVars>>

SWF_PrimaryEmbedDone(r) ==
    /\ pc[r] = "swf_await_embed"
    /\ \/ /\ \E e \in EmbeddingProviderFailures : EmbeddingFailed(r, e)
          /\ UNCHANGED <<clients, query_vector, calls>>
       \/ /\ query_vector' = [query_vector EXCEPT ![r] = Embedding(req[r].question)]
          /\ CallQueryPoints(r, Embedding(req[r].question), req[r].limit, None,
                             req[r].language, "swf_await_search")
          /\ UNCHANGED <<err, provider_err>>
    /\ UNCHANGED <<collection, req, primary, ret>>
    /\ UNCHANGED <<answerVars, chunkerVars, storageVars>>

SWF_PrimaryQueryDone(r) ==
    /\ pc[r] = "swf_await_search"
    /\ \/ /\ \E e \in QueryProviderFailures : QueryFailed(r, e)
          /\ UNCHANGED <<clients, primary, ret, calls>>
       \/ LET primary_results ==
                  QueryPoints(collection, LocalQueryVector(r), None, req[r].language,
                              req[r].limit)
          IN /\ primary' = [primary EXCEPT ![r] = primary_results]
             /\ IF EnoughResults(primary_results, req[r].min_results)
                THEN /\ Return(r, primary_results, FALSE)
                     /\ UNCHANGED <<clients, calls>>
                ELSE \* the second search_with_language_filter embeds the query again
                     /\ CallEmbedText(r, req[r].question, "swf_await_embed_fb")
                     /\ UNCHANGED ret
             /\ UNCHANGED <<err, provider_err>>
    /\ UNCHANGED <<collection, req, query_vector>>
    /\ UNCHANGED <<answerVars, chunkerVars, storageVars>>

SWF_FallbackEmbedDone(r) ==
    /\ pc[r] = "swf_await_embed_fb"
    /\ \/ /\ \E e \in EmbeddingProviderFailures : EmbeddingFailed(r, e)
          /\ UNCHANGED <<clients, query_vector, calls>>
       \/ /\ query_vector' = [query_vector EXCEPT ![r] = Embedding(req[r].question)]
          /\ CallQueryPoints(r, Embedding(req[r].question),
                             RemainingLimit(req[r].limit, primary[r]), None,
                             req[r].fallback_language, "swf_await_search_fb")
          /\ UNCHANGED <<err, provider_err>>
    /\ UNCHANGED <<collection, req, primary, ret>>
    /\ UNCHANGED <<answerVars, chunkerVars, storageVars>>

SWF_FallbackQueryDone(r) ==
    /\ pc[r] = "swf_await_search_fb"
    /\ \/ /\ \E e \in QueryProviderFailures : QueryFailed(r, e)
          /\ UNCHANGED ret
       \/ LET fallback_results ==
                  QueryPoints(collection, LocalQueryVector(r), None,
                              req[r].fallback_language,
                              RemainingLimit(req[r].limit, primary[r]))
          IN /\ Return(r, Take(MergeResults(primary[r], fallback_results), req[r].limit),
                       TRUE)
             /\ UNCHANGED <<err, provider_err>>
    /\ UNCHANGED <<collection, clients, req, query_vector, primary, calls>>
    /\ UNCHANGED <<answerVars, chunkerVars, storageVars>>

\* -------------------------------------------------- answer_chat_request
\* rag.py:471, preferred_language = request.preferredLanguage: ChatRequest
\* declares no field of that name.
ACR_Call(r) ==
    /\ pc[r] = "start"
    /\ req[r].kind = "chat"
    /\ Raise(r, MissingAttributeError)
    /\ UNCHANGED <<collection, clients, req, query_vector, primary, ret,
                   provider_err, calls>>
    /\ UNCHANGED <<answerVars, chunkerVars, storageVars>>

\* -------------------------------------------------------- chat_endpoint
\* HTTPException(status_code=400, detail=...)
BadRequest(detail) == [type |-> "HTTPException 400", prefix |-> "", msg |-> detail]

\* A field tested for None only.
SelectionFieldMissingIfNone(value) == value = None

\* chat.py:112, not request.selectedText or not request.selectedText.strip()
SelectionFieldMissing(value) == value = None \/ Strip(value) = ""

\* The checks of chat_endpoint, in order: the exception of the first that
\* fails, NoError when the request passes them (a question of more than 5000
\* characters does not pass ChatRequest and is not a request of the model).
EndpointValidation(c) ==
    IF c.mode = "selection" /\ SelectionFieldMissing(c.selected_text)
    THEN BadRequest("mode='selection' requires selectedText to be provided and non-empty")
    ELSE IF c.mode = "selection" /\ SelectionFieldMissing(c.doc_path)
    THEN BadRequest("mode='selection' requires docPath to be provided and non-empty")
    ELSE IF Len(Strip(c.question)) < 3
    THEN BadRequest("Question is too short. Please provide a meaningful question.")
    ELSE NoError

\* chat_endpoint up to its first await: the validation, then chat.py:144,
\* get_fallback_language(confidence, request.preferredLanguage), which is
\* outside the try block of the handler.
CE_Call(r) ==
    /\ pc[r] = "start"
    /\ req[r].kind = "endpoint"
    /\ IF EndpointValidation(req[r]) # NoError
       THEN Raise(r, EndpointValidation(req[r]))
       ELSE Raise(r, MissingAttributeError)
    /\ UNCHANGED <<collection, clients, req, query_vector, primary, ret,
                   provider_err, calls>>
    /\ UNCHANGED <<answerVars, chunkerVars, storageVars>>

\* ------------------------------------------------------------------ Next
Next ==
    \E r \in AllRequests :
        \/ WB_Call(r)
        \/ WB_EmbedDone(r)
        \/ WB_SearchDone(r)
        \/ SEL_Call(r)
        \/ SEL_EmbedDone(r)
        \/ SWF_Call(r)
        \/ SWF_PrimaryEmbedDone(r)
        \/ SWF_PrimaryQueryDone(r)
        \/ SWF_FallbackEmbedDone(r)
        \/ SWF_FallbackQueryDone(r)
        \/ ACR_Call(r)
        \/ CE_Call(r)

Spec == Init /\ [][Next]_vars

\* Two calls in flight at once against one collection: the event loop resumes
\* either coroutine at each step.
ConcurrentCalls ==
    {c \in WholeBookCalls \cup SelectionCalls \cup FallbackCalls \cup ChatCalls
            \cup EndpointCalls :
        /\ c.limit \in {0, MaxLimit}
        /\ c.question # ""
        /\ c.selected_text # " "
        /\ c.min_results \in {0, 1, MaxMinResults}
        /\ c.doc_path \in {None, "docs/a.md"}}

InitConcurrent ==
    /\ collection = PointsOf([l \in LanguageCodes |-> IF l = "ja" THEN 1 ELSE 2])
    /\ req \in [AllRequests -> ConcurrentCalls]
    /\ pc = [r \in AllRequests |-> "start"]
    /\ InitLocals
    /\ NoFunctionCall
    /\ NoChunker
    /\ NoStorage

SpecConcurrent == InitConcurrent /\ [][Next]_vars

\* No retrieval is in progress.
NoRetrieval ==
    /\ collection = {}
    /\ req = [r \in AllRequests |-> NoCall]
    /\ pc = [r \in AllRequests |-> "idle"]
    /\ InitLocals

\* ------------------------- confidence, citations and sources of rag.py
MaxChunks == 3
MaxCitations == 3
MaxChunkCount == 6

\* A chunk text, by what extract_citations reads of it: the length of
\* text.strip() (0 for an empty or whitespace-only text) and the value of
\* text.strip()[:150].rfind(". ").
Text(stripped_len, cutoff) == [stripped_len |-> stripped_len, cutoff |-> cutoff]

Texts ==
    {Text(0, -1), Text(5, -1), Text(40, -1), Text(200, -1), Text(200, 99), Text(200, 3)}

\* SearchResult objects: doc_path, heading, text.  A SearchResult has no
\* attribute url_path.
RetrievedChunks ==
    {[doc_path |-> "docs/a.md", heading |-> "H1", text |-> t] : t \in Texts}
    \cup {[doc_path |-> "docs/a.md", heading |-> "H2", text |-> Text(40, -1)],
          [doc_path |-> "docs/b.md", heading |-> "H3", text |-> Text(40, -1)]}

ChunkLists == UNION {[1..n -> RetrievedChunks] : n \in 0..MaxChunks}

ConfidenceCalls ==
    {FunctionCall("calculate_confidence", <<>>, 0, n, f, "en") :
        n \in 0..MaxChunkCount, f \in BOOLEAN}

CitationCalls ==
    {FunctionCall("extract_citations", chunks, m, 0, FALSE, "en") :
        chunks \in ChunkLists, m \in 0..MaxCitations}

SourcesCalls ==
    {FunctionCall("format_sources_section", chunks, 0, 0, FALSE, l) :
        chunks \in ChunkLists, l \in LanguageCodes}

ContextCalls ==
    {FunctionCall("build_context", chunks, 0, 0, FALSE, "en") : chunks \in ChunkLists}

\* How a function ends: with the value it returns or the exception it raises.
Returned(value) == [err |-> NoError, value |-> value]
Raised(e) == [err |-> e, value |-> <<>>]

\* The fallback flag looked at after the count.
calculate_confidence_count_first(num_chunks, fallback_applied) ==
    IF num_chunks >= 5 THEN "high"
    ELSE IF fallback_applied THEN "low"
    ELSE IF num_chunks >= 3 THEN "medium"
    ELSE "low"

calculate_confidence(num_chunks, fallback_applied) ==
    IF fallback_applied THEN "low"
    ELSE IF num_chunks >= 5 THEN "high"
    ELSE IF num_chunks >= 3 THEN "medium"
    ELSE "low"

\* The length of the snippet extract_citations cuts from a text.
SnippetLength(text) ==
    IF text.stripped_len > 150
    THEN IF text.cutoff > 0 THEN text.cutoff + 1 ELSE 150 + 3
    ELSE text.stripped_len

\* Citation(docPath, heading, snippet): snippet has min_length=10.
CitationValidationError ==
    [type |-> "ValidationError", prefix |-> "",
     msg |-> "snippet: String should have at least 10 characters"]

Citation(chunk) ==
    [docPath |-> chunk.doc_path, heading |-> chunk.heading,
     snippet_len |-> SnippetLength(chunk.text), text |-> chunk.text]

\* The loop of extract_citations over the chunks it was left with.
RECURSIVE CitationsOf(_)
CitationsOf(chunks) ==
    IF chunks = <<>> THEN Returned(<<>>)
    ELSE LET chunk == Head(chunks)
             rest == CitationsOf(Tail(chunks))
         IN IF chunk.text.stripped_len = 0 THEN rest
            ELSE IF SnippetLength(chunk.text) < 10 THEN Raised(CitationValidationError)
            ELSE IF rest.err # NoError THEN rest
            ELSE Returned(<<Citation(chunk)>> \o rest.value)

\* for chunk in chunks[:max_citations]
extract_citations(chunks, max_citations) == CitationsOf(Take(chunks, max_citations))

UrlPathAttributeError ==
    [type |-> "AttributeError", prefix |-> "",
     msg |-> "'SearchResult' object has no attribute 'url_path'"]

\* format_sources_section: the first chunk of the loop is never in seen_docs,
\* so `if chunk.url_path:` is evaluated for it.
format_sources_section(chunks, language) ==
    IF chunks = <<>> THEN Returned([header |-> "", entries |-> <<>>])
    ELSE Raised(UrlPathAttributeError)

\* The blocks numbered from 0.
SourceNumberFromZero(position) == position - 1

\* rag.py:204, enumerate(chunks, 1): the number of the chunk at a (1-based)
\* position of the list.
SourceNumber(position) == position

\* build_context: the blocks "[Source i] Document: ... Section: ...
\* Content: ... ---" that are joined by blank lines, in order.
build_context(chunks) ==
    [position \in 1..Len(chunks) |->
        [source |-> SourceNumber(position), document |-> chunks[position].doc_path,
         section |-> chunks[position].heading, content |-> chunks[position].text]]

FunctionEnds(result) ==
    /\ fn_pc' = IF result.err = NoError THEN "returned" ELSE "raised"
    /\ fn_result' = result.value
    /\ fn_err' = result.err
    /\ UNCHANGED <<fn_call, retrievalVars, chunkerVars, storageVars>>

CalculateConfidence ==
    /\ fn_pc = "called"
    /\ fn_call.fn = "calculate_confidence"
    /\ FunctionEnds(Returned(calculate_confidence(fn_call.num_chunks,
                                                  fn_call.fallback_applied)))

ExtractCitations ==
    /\ fn_pc = "called"
    /\ fn_call.fn = "extract_citations"
    /\ FunctionEnds(extract_citations(fn_call.chunks, fn_call.max_citations))

FormatSourcesSection ==
    /\ fn_pc = "called"
    /\ fn_call.fn = "format_sources_section"
    /\ FunctionEnds(format_sources_section(fn_call.chunks, fn_call.language))

BuildContext ==
    /\ fn_pc = "called"
    /\ fn_call.fn = "build_context"
    /\ FunctionEnds(Returned(build_context(fn_call.chunks)))

InitAnswer ==
    /\ fn_call \in ConfidenceCalls \cup CitationCalls \cup SourcesCalls \cup ContextCalls
    /\ fn_pc = "called"
    /\ fn_result = <<>>
    /\ fn_err = NoError
    /\ NoRetrieval
    /\ NoChunker
    /\ NoStorage

NextAnswer ==
    \/ CalculateConfidence
    \/ ExtractCitations
    \/ FormatSourcesSection
    \/ BuildContext

SpecAnswer == InitAnswer /\ [][NextAnswer]_vars

\* ------------------------------------------------ chunker.py, chunking
MaxTokens == 5
MaxChunkSize == 3

\* The windows a run of _split_long_text is followed for.
MaxWindows == MaxTokens

\* A document as the tokens of its text: "#" is the token that opens a
\* heading line, "w" any other token.  Whitespace, which strip() removes, is
\* not a token of the model.
Documents == UNION {[1..n -> {"#", "w"}] : n \in 0..MaxTokens}

\* MarkdownChunker(chunk_size, chunk_overlap) and the arguments of
\* _split_into_chunks(text, chunk_size, chunk_overlap).
Chunkers ==
    {[kind |-> k, chunk_size |-> size, chunk_overlap |-> overlap] :
        k \in {"markdown", "characters"}, size \in 1..MaxChunkSize,
        overlap \in 0..(MaxChunkSize + 1)}

\* extract_headings: the positions of the headings, in order (1-based).
Headings(text) == SelectSeq([i \in 1..Len(text) |-> i], LAMBDA i : text[i] = "#")

\* The heading given to a text without headings.
Introduction == 0

\* next_pos of heading number i, as the position of the last token of its section.
SectionEnd(text, i) ==
    IF i + 1 <= Len(Headings(text)) THEN Headings(text)[i + 1] - 1 ELSE Len(text)

\* TextChunk(text, heading, chunk_index, token_count): the text is the
\* token_count tokens of the document that start at position `from`.
TextChunk(from, heading, chunk_index, token_count) ==
    [from |-> from, heading |-> heading, chunk_index |-> chunk_index,
     token_count |-> token_count]

\* An index of a Python slice of a sequence of n elements.
SliceIndex(i, n) == IF i < 0 THEN (IF i + n < 0 THEN 0 ELSE i + n) ELSE Min(i, n)

\* len(tokens[a:b]) for a sequence of n tokens.
SliceLength(a, b, n) ==
    IF SliceIndex(b, n) > SliceIndex(a, n) THEN SliceIndex(b, n) - SliceIndex(a, n) ELSE 0

\* The window end one token further.
EndPosOneMore(current_pos, chunk_size, total_tokens) ==
    Min(current_pos + chunk_size + 1, total_tokens)

\* chunker.py:174, end_pos = min(current_pos + self.chunk_size, total_tokens)
EndPos(current_pos, chunk_size, total_tokens) == Min(current_pos + chunk_size, total_tokens)

\* The next window starting where the previous one ended.
NextPosNoOverlap(end_pos, chunk_overlap) == end_pos

\* The next window starting one token before the overlap.
NextPosBeforeOverlap(end_pos, chunk_overlap) == end_pos - chunk_overlap - 1

\* chunker.py:191, current_pos = end_pos - self.chunk_overlap
NextPos(end_pos, chunk_overlap) == end_pos - chunk_overlap

\* The index advanced by one after a split section.
IndexAfterSplitByOne(chunk_index, section_chunks) == chunk_index + 1

\* chunker.py:146, chunk_index += len(section_chunks)
IndexAfterSplit(chunk_index, section_chunks) == chunk_index + Len(section_chunks)

\* The call _split_long_text(text, heading, start_index) up to its loop,
\* for the tokens from..from+total_tokens-1 of the document.
SplitLongText(from, total_tokens, heading, start_index) ==
    [from |-> from, total_tokens |-> total_tokens, heading |-> heading,
     chunks |-> <<>>, current_pos |-> 0, chunk_index |-> start_index]

\* MarkdownChunker.__init__: the parameters are stored as given.
MC_Init ==
    /\ cd_pc = "new"
    /\ chunker.kind = "markdown"
    /\ cd_pc' = "built"
    /\ UNCHANGED <<chunker, document, cd_chunks, cd_i, cd_chunk_index, sp>>
    /\ UNCHANGED <<retrievalVars, answerVars, storageVars>>

\* chunk_document -> chunk_by_headings, up to its loop over the headings.
CD_Call ==
    /\ cd_pc = "built"
    /\ IF Headings(document) = <<>>
       THEN /\ sp' = SplitLongText(1, Len(document), Introduction, 0)
            /\ cd_pc' = "split"
            /\ cd_i' = 0
       ELSE /\ cd_pc' = "sections"
            /\ cd_i' = 1
            /\ UNCHANGED sp
    /\ cd_chunks' = <<>>
    /\ cd_chunk_index' = 0
    /\ UNCHANGED <<chunker, document>>
    /\ UNCHANGED <<retrievalVars, answerVars, storageVars>>

\* One pass of the loop over the headings: the section is kept whole or
\* handed to _split_long_text.
CD_Section ==
    /\ cd_pc = "sections"
    /\ cd_i <= Len(Headings(document))
    /\ LET pos == Headings(document)[cd_i]
           section_tokens == SectionEnd(document, cd_i) - pos + 1
       IN IF section_tokens <= chunker.chunk_size
          THEN /\ cd_chunks' = Append(cd_chunks,
                                      TextChunk(pos, pos, cd_chunk_index, section_tokens))
               /\ cd_chunk_index' = cd_chunk_index + 1
               /\ cd_i' = cd_i + 1
               /\ UNCHANGED <<cd_pc, sp>>
          ELSE /\ sp' = SplitLongText(pos, section_tokens, pos, cd_chunk_index)
               /\ cd_pc' = "split"
               /\ UNCHANGED <<cd_chunks, cd_chunk_index, cd_i>>
    /\ UNCHANGED <<chunker, document>>
    /\ UNCHANGED <<retrievalVars, answerVars, storageVars>>

\* The loop over the headings is over: return chunks.
CD_Return ==
    /\ cd_pc = "sections"
    /\ cd_i > Len(Headings(document))
    /\ cd_pc' = "returned"
    /\ UNCHANGED <<chunker, document, cd_chunks, cd_i, cd_chunk_index, sp>>
    /\ UNCHANGED <<retrievalVars, answerVars, storageVars>>

\* _split_long_text returns section_chunks to chunk_by_headings, which
\* returns them (no headings) or extends chunks with them.
SplitReturns(section_chunks) ==
    IF cd_i = 0
    THEN /\ cd_chunks' = section_chunks
         /\ cd_pc' = "returned"
         /\ UNCHANGED <<cd_i, cd_chunk_index>>
    ELSE /\ cd_chunks' = cd_chunks \o section_chunks
         /\ cd_chunk_index' = IndexAfterSplit(cd_chunk_index, section_chunks)
         /\ cd_i' = cd_i + 1
         /\ cd_pc' = "sections"

\* One pass of the while loop of _split_long_text; the pass that reaches the
\* last token breaks out of the loop and returns.
SPLIT_Window ==
    /\ cd_pc = "split"
    /\ sp.current_pos < sp.total_tokens
    /\ Len(sp.chunks) < MaxWindows
    /\ LET end_pos == EndPos(sp.current_pos, chunker.chunk_size, sp.total_tokens)
           chunk == TextChunk(sp.from + SliceIndex(sp.current_pos, sp.total_tokens),
                              sp.heading, sp.chunk_index,
                              SliceLength(sp.current_pos, end_pos, sp.total_tokens))
           chunks == Append(sp.chunks, chunk)
       IN IF end_pos < sp.total_tokens
          THEN /\ sp' = [sp EXCEPT !.chunks = chunks,
                                   !.current_pos = NextPos(end_pos, chunker.chunk_overlap),
                                   !.chunk_index = @ + 1]
               /\ UNCHANGED <<cd_pc, cd_chunks, cd_i, cd_chunk_index>>
          ELSE /\ sp' = [sp EXCEPT !.chunks = chunks]
               /\ SplitReturns(chunks)
    /\ UNCHANGED <<chunker, document>>
    /\ UNCHANGED <<retrievalVars, answerVars, storageVars>>

\* The while condition of _split_long_text is false: return chunks.
SPLIT_Exit ==
    /\ cd_pc = "split"
    /\ sp.current_pos >= sp.total_tokens
    /\ SplitReturns(sp.chunks)
    /\ UNCHANGED <<chunker, document, sp>>
    /\ UNCHANGED <<retrievalVars, answerVars, storageVars>>

\* The windows of _split_into_chunks from position start (0-based) of a text
\* of text_length characters.
RECURSIVE CharacterWindows(_, _, _, _, _)
CharacterWindows(start, text_length, chunk_size, chunk_overlap, index) ==
    IF start < text_length
    THEN <<TextChunk(start + 1, Introduction, index,
                     SliceLength(start, start + chunk_size, text_length))>>
         \o CharacterWindows(start + chunk_size - chunk_overlap, text_length,
                             chunk_size, chunk_overlap, index + 1)
    ELSE <<>>

\* rag_multilingual._split_into_chunks(text, chunk_size, chunk_overlap)
SIC_Call ==
    /\ cd_pc = "new"
    /\ chunker.kind = "characters"
    /\ IF chunker.chunk_size <= chunker.chunk_overlap
       THEN /\ cd_pc' = "raised"
            /\ UNCHANGED cd_chunks
       ELSE /\ cd_pc' = "returned"
            /\ cd_chunks' = CharacterWindows(0, Len(document), chunker.chunk_size,
                                             chunker.chunk_overlap, 0)
    /\ UNCHANGED <<chunker, document, cd_i, cd_chunk_index, sp>>
    /\ UNCHANGED <<retrievalVars, answerVars, storageVars>>

InitChunker ==
    /\ chunker \in Chunkers
    /\ document \in Documents
    /\ cd_pc = "new"
    /\ cd_chunks = <<>>
    /\ cd_i = 0
    /\ cd_chunk_index = 0
    /\ sp = NoSplit
    /\ NoRetrieval
    /\ NoFunctionCall
    /\ NoStorage

NextChunker ==
    \/ MC_Init
    \/ CD_Call
    \/ CD_Section
    \/ CD_Return
    \/ SPLIT_Window
    \/ SPLIT_Exit
    \/ SIC_Call

SpecChunker == InitChunker /\ [][NextChunker]_vars

\* chunk_document is synchronous code: a call that can take a step takes it.
SpecChunkerFair == SpecChunker /\ WF_vars(NextChunker)

\* -------------------------------------------- qdrant.upsert_embeddings
MaxBatch == 2
MaxUpserts == 2

\* EmbeddingChunk.id of the chunks to store, "doc_path:chunk_index".
ChunkIds == {"docs/a.md:0", "docs/a.md:1", "docs/b.md:0"}

\* The values uuid4() can return, enough of them for every call followed.
UUIDs == 1..(MaxBatch * MaxUpserts)

\* The chunk lists given to upsert_embeddings: distinct chunks, in any order.
Batches ==
    {b \in UNION {[1..n -> ChunkIds] : n \in 0..MaxBatch} :
        \A i, j \in 1..Len(b) : i # j => b[i] # b[j]}

EmptyChunksError ==
    [type |-> "ValueError", prefix |-> "", msg |-> "Chunks list cannot be empty"]

\* PointStruct(id, vector, payload): the id and the chunk_id of the payload
\* (the vector and the rest of the payload are those of the chunk).
PointStruct(id, chunk) == [id |-> id, chunk_id |-> chunk]

\* QdrantClient.upsert: a point replaces the stored point of the same id.
Upsert(stored, points) ==
    {q \in stored : \A n \in points : n.id # q.id} \cup points

\* upsert_embeddings up to its await: the empty check, then one PointStruct
\* per chunk with id=uuid4(), a value no earlier call of uuid4() returned.
UE_Call ==
    /\ up.pc \in {"ready", "returned", "raised"}
    /\ Len(up.history) < MaxUpserts
    /\ \E chunks \in Batches :
          IF chunks = <<>>
          THEN up' = [up EXCEPT !.pc = "raised", !.chunks = chunks, !.points = {}]
          ELSE \E ids \in [1..Len(chunks) -> UUIDs \ up.used] :
                  /\ \A i, j \in 1..Len(chunks) : i # j => ids[i] # ids[j]
                  /\ up' = [up EXCEPT
                              !.pc = "await_upsert",
                              !.chunks = chunks,
                              !.points = {PointStruct(ids[i], chunks[i]) : i \in 1..Len(chunks)},
                              !.used = @ \cup {ids[i] : i \in 1..Len(chunks)}]
    /\ UNCHANGED <<collection, clients, req, pc, query_vector, primary, ret, err,
                   provider_err, calls>>
    /\ UNCHANGED <<answerVars, chunkerVars, chat_db, audio_cache, tts>>

\* client.upsert returned: the points are stored.
UE_Done ==
    /\ up.pc = "await_upsert"
    /\ collection' = Upsert(collection, up.points)
    /\ up' = [up EXCEPT !.pc = "returned",
                        !.history = Append(@, [chunks |-> up.chunks,
                                               collection |-> collection'])]
    /\ UNCHANGED <<clients, req, pc, query_vector, primary, ret, err,
                   provider_err, calls>>
    /\ UNCHANGED <<answerVars, chunkerVars, chat_db, audio_cache, tts>>

\* client.upsert raised: nothing is stored and the exception propagates.
UE_Failed ==
    /\ up.pc = "await_upsert"
    /\ up' = [up EXCEPT !.pc = "raised"]
    /\ UNCHANGED <<collection, clients, req, pc, query_vector, primary, ret, err,
                   provider_err, calls>>
    /\ UNCHANGED <<answerVars, chunkerVars, chat_db, audio_cache, tts>>

InitUpsert ==
    /\ up = [pc |-> "ready", chunks |-> <<>>, points |-> {}, used |-> {},
             history |-> <<>>]
    /\ NoRetrieval
    /\ NoFunctionCall
    /\ NoChunker
    /\ NoChatStorage
    /\ NoAudio

NextUpsert ==
    \/ UE_Call
    \/ UE_Done
    \/ UE_Failed

SpecUpsert == InitUpsert /\ [][NextUpsert]_vars

\* -------------------------------------- chat_storage.save_chat_interaction
MaxInteractions == 2

\* request.userId: None, empty, blank, or the id of a user.
UserIds == {None, "", " ", "u1"}

\* return user_id is not None and user_id.strip() != ""
should_persist(user_id) == user_id # None /\ Strip(user_id) # ""

\* A ChatSession row, with its mode, and a ChatMessage row, with its role.
SessionRow(id, mode) == [table |-> "chat_sessions", session_id |-> id, detail |-> mode]
MessageRow(id, role) == [table |-> "chat_messages", session_id |-> id, detail |-> role]

\* await db.commit() returned: what was added is stored.
Commit(suspended_at) ==
    chat_db' = [chat_db EXCEPT !.pc = suspended_at,
                               !.committed = @ \cup chat_db.pending,
                               !.pending = {}]

\* db.add(row) and the call of await db.commit()
Add(row, suspended_at) ==
    chat_db' = [chat_db EXCEPT !.pc = suspended_at, !.pending = @ \cup {row}]

\* except Exception: await db.rollback(); raise. The rollback discards what
\* was added since the last commit.
RollbackAndRaise ==
    chat_db' = [chat_db EXCEPT !.pc = "raised", !.pending = {}]

StorageUnchanged ==
    /\ UNCHANGED <<retrievalVars, answerVars, chunkerVars>>
    /\ UNCHANGED <<up, audio_cache, tts>>

\* save_chat_interaction up to the first await: should_persist, then
\* create_session adds the ChatSession and commits.
SCI_Call ==
    /\ chat_db.pc \in {"ready", "returned", "raised"}
    /\ chat_db.interactions < MaxInteractions
    /\ \E user_id \in UserIds, mode \in {"whole-book", "selection"} :
          LET called == [chat_db EXCEPT !.user_id = user_id,
                                        !.mode = mode,
                                        !.before = chat_db.committed,
                                        !.interactions = @ + 1]
          IN IF ~should_persist(user_id)
             THEN chat_db' = [called EXCEPT !.pc = "returned"]
             ELSE chat_db' = [called EXCEPT !.pc = "cs_commit",
                                            !.session_id = @ + 1,
                                            !.pending = {SessionRow(chat_db.session_id + 1, mode)}]
    /\ StorageUnchanged

\* create_session: await db.commit(), await db.refresh(session); then
\* add_user_message adds its ChatMessage.
create_session ==
    /\ \/ /\ chat_db.pc = "cs_commit"
          /\ Commit("cs_refresh") \/ RollbackAndRaise
       \/ /\ chat_db.pc = "cs_refresh"
          /\ Add(MessageRow(chat_db.session_id, "user"), "aum_commit") \/ RollbackAndRaise
    /\ StorageUnchanged

\* add_user_message: commit, refresh; then add_assistant_message adds its
\* ChatMessage.
add_user_message ==
    /\ \/ /\ chat_db.pc = "aum_commit"
          /\ Commit("aum_refresh") \/ RollbackAndRaise
       \/ /\ chat_db.pc = "aum_refresh"
          /\ Add(MessageRow(chat_db.session_id, "assistant"), "aam_commit")
             \/ RollbackAndRaise
    /\ StorageUnchanged

\* add_assistant_message: commit, refresh; save_chat_interaction returns the
\* session.
add_assistant_message ==
    /\ \/ /\ chat_db.pc = "aam_commit"
          /\ Commit("aam_refresh") \/ RollbackAndRaise
       \/ /\ chat_db.pc = "aam_refresh"
          /\ chat_db' = [chat_db EXCEPT !.pc = "returned"] \/ RollbackAndRaise
    /\ StorageUnchanged

InitChatStorage ==
    /\ chat_db = [pc |-> "ready", user_id |-> None, mode |-> None, session_id |-> 0,
                  committed |-> {},
                  pending |-> {}, before |-> {}, interactions |-> 0]
    /\ NoRetrieval
    /\ NoFunctionCall
    /\ NoChunker
    /\ NoUpsert
    /\ NoAudio

NextChatStorage ==
    \/ SCI_Call
    \/ create_session
    \/ add_user_message
    \/ add_assistant_message

SpecChatStorage == InitChatStorage /\ [][NextChatStorage]_vars

\* ---------------------------------------------------- voice._cache_audio
MaxCacheCalls == 125
MaxCollisions == 1

\* MAX_CACHE_SIZE = 100
MAX_CACHE_SIZE == 100

\* The cache cleaned only once it holds more than MAX_CACHE_SIZE entries.
CacheOverfull(size) == size > MAX_CACHE_SIZE

\* if len(_audio_cache) >= MAX_CACHE_SIZE
CacheFull(size) == size >= MAX_CACHE_SIZE

\* list(_audio_cache.keys())[: MAX_CACHE_SIZE // 5] deleted: a dict lists
\* its keys in insertion order.
AfterCleanup(entries) ==
    SubSeq(entries, Min(MAX_CACHE_SIZE \div 5, Len(entries)) + 1, Len(entries))

\* _audio_cache[audio_id] = (audio_bytes, language): a key the dict holds
\* keeps its place and takes the new value, a new key goes last.
Store(entries, audio_id, audio) ==
    IF \E i \in 1..Len(entries) : entries[i].audio_id = audio_id
    THEN [i \in 1..Len(entries) |->
             IF entries[i].audio_id = audio_id
             THEN [audio_id |-> audio_id, audio |-> audio]
             ELSE entries[i]]
    ELSE Append(entries, [audio_id |-> audio_id, audio |-> audio])

\* _audio_cache.get(audio_id): the value, or 0 for None.
GetCachedAudio(audio_id) ==
    IF \E i \in 1..Len(audio_cache) : audio_cache[i].audio_id = audio_id
    THEN LET i == CHOOSE j \in 1..Len(audio_cache) : audio_cache[j].audio_id = audio_id
         IN audio_cache[i].audio
    ELSE 0

\* str(uuid.uuid4())[:8]: an id no call returned before or, the 8 hex digits
\* colliding, the key of the oldest or of the newest entry of the cache.
AudioIds(entries) ==
    {tts.calls + 1}
    \cup (IF tts.collisions < MaxCollisions /\ entries # <<>>
          THEN {entries[1].audio_id, entries[Len(entries)].audio_id}
          ELSE {})

\* _cache_audio(audio_bytes, language); the audio of call n is n.
CacheAudio ==
    /\ tts.calls < MaxCacheCalls
    /\ LET kept == IF CacheFull(Len(audio_cache))
                   THEN AfterCleanup(audio_cache)
                   ELSE audio_cache
           audio == tts.calls + 1
       IN \E audio_id \in AudioIds(kept) :
             /\ audio_cache' = Store(kept, audio_id, audio)
             /\ tts' = [calls |-> tts.calls + 1,
                        collisions |-> IF audio_id = audio THEN tts.collisions
                                       ELSE tts.collisions + 1,
                        audio_id |-> audio_id,
                        audio |-> audio]
    /\ UNCHANGED <<retrievalVars, answerVars, chunkerVars>>
    /\ UNCHANGED <<up, chat_db>>

InitAudioCache ==
    /\ NoAudio
    /\ NoRetrieval
    /\ NoFunctionCall
    /\ NoChunker
    /\ NoUpsert
    /\ NoChatStorage

NextAudioCache == CacheAudio

SpecAudioCache == InitAudioCache /\ [][NextAudioCache]_vars

\* ================================================================ claims
Searches(r) == SelectSeq(calls[r], LAMBDA c : c.op = "search")
Embeds(r) == SelectSeq(calls[r], LAMBDA c : c.op = "embed")

\* What search number i of request r returned.
SearchResult(r, i) ==
    LET c == Searches(r)[i]
    IN QueryPoints(collection, c.vector, c.doc_path, c.language, c.limit)

\* The call of r was given non-empty texts and no collaborator call of it failed.
AllCallsReturned(r) ==
    /\ provider_err[r] = NoError
    /\ Strip(req[r].question) # ""
    /\ req[r].kind = "selection" => Strip(req[r].selected_text) # ""

\* How many results a search of the collection filtered to language l returns.
ReturnedCount(l, limit) ==
    Min(limit, Cardinality({p \in collection : p.language = l}))

\* C1: a whole-book retrieval with a language other than "en" whose
\* language-filtered search returns fewer than 3 results issues exactly one
\* second search, filtered to "en" and asking for limit - returnedCount
\* results, appends its results and returns fallbackApplied = true; when the
\* first search returns 3 or more results there is no second search.
C1_EnglishFallbackSearch ==
    \A r \in AllRequests :
        (/\ req[r].kind = "whole_book"
         /\ req[r].language \in LanguageCodes \ {"en"}
         /\ Finished(r)
         /\ AllCallsReturned(r))
        => LET n == ReturnedCount(req[r].language, req[r].limit)
           IN /\ ret[r].returned
              /\ IF n < 3
                 THEN /\ Len(Searches(r)) = 2
                      /\ Searches(r)[2].language = "en"
                      /\ Searches(r)[2].limit = req[r].limit - n
                      /\ ret[r].chunks = SearchResult(r, 1) \o SearchResult(r, 2)
                      /\ ret[r].fallback_applied
                 ELSE /\ Len(Searches(r)) = 1
                      /\ ~ret[r].fallback_applied

\* A language-filtered search of request r that returned fewer than 3 results
\* was followed by a search filtered to "en" whose results were appended.
SecondaryMerged(r) ==
    \E i \in 1..(Len(Searches(r)) - 1) :
        /\ Searches(r)[i].language = req[r].language
        /\ Searches(r)[i].language # None
        /\ Len(SearchResult(r, i)) < 3
        /\ Searches(r)[i + 1].language = "en"
        /\ ret[r].chunks = SearchResult(r, i) \o SearchResult(r, i + 1)

\* C2: in every outcome returned by retrieve_chunks_whole_book or
\* retrieve_chunks_selection, fallback_applied is true exactly when the
\* primary-language search returned fewer than 3 results and an English
\* search was made and merged in; it is false when one search was made.
C2_FallbackAppliedIffMerged ==
    \A r \in AllRequests :
        (req[r].kind \in {"whole_book", "selection"} /\ ret[r].returned)
        => (ret[r].fallback_applied <=> SecondaryMerged(r))

\* A whole-book outcome of fewer than 3 chunks from a single search.
C2_Witness ==
    \E r \in AllRequests :
        /\ req[r].kind = "whole_book"
        /\ ret[r].returned
        /\ Len(ret[r].chunks) < 3
        /\ Len(Searches(r)) = 1
        /\ ~ret[r].fallback_applied

\* C3: a whole-book retrieval with language unset or "en" issues exactly one
\* search, for limit results, and returns fallbackApplied = false whatever
\* the number of results.
C3_SingleSearchNoFallback ==
    \A r \in AllRequests :
        (/\ req[r].kind = "whole_book"
         /\ req[r].language \in {None, "en"}
         /\ Finished(r)
         /\ AllCallsReturned(r))
        => /\ Len(Searches(r)) = 1
           /\ Searches(r)[1].limit = req[r].limit
           /\ ret[r].returned
           /\ ~ret[r].fallback_applied

Descending(chunks, vector) ==
    \A i, j \in 1..Len(chunks) : i < j => Score(chunks[i], vector) > Score(chunks[j], vector)

\* C4: a returned list keeps the order in which each search returned its
\* results (descending score), and when the fallback was applied the list is
\* the primary search's results followed by results of the fallback search.
C4_PrimaryResultsFirst ==
    \A r \in AllRequests :
        ret[r].returned
        => LET chunks == ret[r].chunks
           IN IF ~ret[r].fallback_applied
              THEN /\ chunks = SearchResult(r, 1)
                   /\ Descending(chunks, Searches(r)[1].vector)
              ELSE /\ Len(Searches(r)) = 2
                   /\ \E k \in 0..Len(chunks) :
                         /\ SubSeq(chunks, 1, k) = SearchResult(r, 1)
                         /\ SubSeq(chunks, k + 1, Len(chunks))
                              = Take(SearchResult(r, 2), Len(chunks) - k)
                         /\ Descending(SubSeq(chunks, 1, k), Searches(r)[1].vector)
                         /\ Descending(SubSeq(chunks, k + 1, Len(chunks)),
                                       Searches(r)[2].vector)
                         /\ \A i \in 1..k : chunks[i].language = req[r].language

\* Primary language "ur" returned 2 results and English results follow them.
C4_Witness ==
    \E r \in AllRequests :
        /\ req[r].kind = "with_fallback"
        /\ req[r].language = "ur"
        /\ req[r].fallback_language = "en"
        /\ ret[r].returned
        /\ ret[r].fallback_applied
        /\ Len(primary[r]) = 2
        /\ Len(ret[r].chunks) > 2
        /\ ret[r].chunks[1].language = "ur"
        /\ ret[r].chunks[2].language = "ur"
        /\ ret[r].chunks[3].language = "en"

\* What retrieve_chunks_selection is to return when its collaborator calls
\* return: the document-scoped results when there are any.
ScopedResults(r) ==
    QueryPoints(collection, Embedding(req[r].selected_text), req[r].doc_path,
                req[r].language, req[r].limit)

\* C5: a selection retrieval whose document-scoped search returns results
\* returns them unchanged with fallbackApplied = false and makes no other
\* search; when it returns none, the whole-book algorithm is run with the
\* same question, language and limit and without the document filter, and
\* its outcome is returned.
C5_SelectionDelegates ==
    \A r \in AllRequests :
        (/\ req[r].kind = "selection"
         /\ Finished(r)
         /\ AllCallsReturned(r))
        => /\ ret[r].returned
           /\ Len(Searches(r)) >= 1
           /\ IF ScopedResults(r) # <<>>
              THEN /\ ret[r] = Outcome(ScopedResults(r), FALSE)
                   /\ Len(Searches(r)) = 1
              ELSE /\ Len(Embeds(r)) = 2
                   /\ Embeds(r)[2].text = req[r].question
                   /\ Len(Searches(r)) >= 2
                   /\ Searches(r)[2].doc_path = None
                   /\ Searches(r)[2].limit = req[r].limit
                   /\ Searches(r)[2].language = req[r].language

\* C6: the document-scoped search of a selection retrieval is made with the
\* embedding of the selected text, and the question is embedded only after
\* that search, for the whole-book delegation.
C6_ScopedSearchUsesSelectedText ==
    \A r \in AllRequests :
        (/\ req[r].kind = "selection"
         /\ Finished(r)
         /\ AllCallsReturned(r))
        => /\ Len(Searches(r)) >= 1
           /\ Searches(r)[1].vector = Embedding(req[r].selected_text)
           /\ Searches(r)[1].doc_path = req[r].doc_path
           /\ Embeds(r)[1].text = req[r].selected_text
           /\ \A i \in 2..Len(calls[r]) :
                  calls[r][i].op = "embed" => calls[r][i].text = req[r].question

\* C7: a whole-book or selection retrieval issues at most 2 embedding calls
\* and at most 3 searches, and when every collaborator call returns it ends
\* with an outcome.
C7_TerminatesWithOutcome ==
    \A r \in AllRequests :
        req[r].kind \in {"whole_book", "selection"}
        => /\ Len(Embeds(r)) <= 2
           /\ Len(Searches(r)) <= 3
           /\ (Finished(r) /\ AllCallsReturned(r)) => ret[r].returned

\* The collaborator call of r that failed is the last one r issued.
FailedCall(r) == calls[r][Len(calls[r])]

\* C8 (as amended): when a collaborator call fails the retrieval ends at
\* once, returns no outcome and issues no further call; an OpenAIError of the
\* embeddings endpoint is raised again as a new OpenAIError carrying the
\* provider's message behind "Failed to generate embedding: ", and every
\* other failure is raised unchanged.
C8_FailureEndsRetrieval ==
    \A r \in AllRequests :
        provider_err[r] # NoError
        => /\ pc[r] = "raised"
           /\ ~ret[r].returned
           /\ Len(calls[r]) >= 1
           /\ err[r].msg = provider_err[r].msg
           /\ IF FailedCall(r).op = "embed" /\ provider_err[r].type \in OpenAIErrorClasses
              THEN /\ err[r].type = "OpenAIError"
                   /\ err[r].prefix = "Failed to generate embedding: "
              ELSE err[r] = provider_err[r]
           /\ FailedCall(r).op =
                  (IF provider_err[r] \in EmbeddingProviderFailures THEN "embed" ELSE "search")

\* The embeddings endpoint raised a RateLimitError and the retrieval ended
\* with the re-raised OpenAIError.
C8_Witness ==
    \E r \in AllRequests :
        /\ req[r].kind = "whole_book"
        /\ provider_err[r].type = "RateLimitError"
        /\ pc[r] = "raised"
        /\ err[r].type = "OpenAIError"
        /\ err[r].prefix = "Failed to generate embedding: "
        /\ Len(calls[r]) = 1

\* C8 as stated: the retrieval ends with the collaborator's failure unchanged.
C8_FailureUnchanged ==
    \A r \in AllRequests :
        provider_err[r] # NoError => (pc[r] = "raised" /\ err[r] = provider_err[r])

\* C9: a chat request runs embed, then search, then generation, one call at
\* a time, and ends with its response.
C9_StepsInOrder ==
    \A r \in AllRequests :
        (/\ req[r].kind = "chat"
         /\ req[r].mode = "selection" => (req[r].selected_text # None /\ req[r].doc_path # None)
         /\ Finished(r)
         /\ AllCallsReturned(r))
        => /\ Len(calls[r]) >= 2
           /\ calls[r][1].op = "embed"
           /\ calls[r][2].op = "search"
           /\ ret[r].returned

\* What a call ends with: the outcome it returned, the exception it raised.
Result(outcome, error) == [ret |-> outcome, err |-> error]

\* What call c ends with when it is the only call made against the points
\* and none of its collaborator calls fails.
RunAlone(c, points) ==
    CASE c.kind = "chat" -> Result(NoOutcome, MissingAttributeError)
      [] c.kind = "endpoint" ->
            IF EndpointValidation(c) # NoError
            THEN Result(NoOutcome, EndpointValidation(c))
            ELSE Result(NoOutcome, MissingAttributeError)
      [] c.kind = "whole_book" ->
            IF Strip(c.question) = "" THEN Result(NoOutcome, EmptyTextError)
            ELSE IF c.language # None THEN Result(NoOutcome, UnexpectedKeywordError)
            ELSE Result(Outcome(QueryPoints(points, Embedding(c.question), None, None,
                                            c.limit), FALSE),
                        NoError)
      [] c.kind = "selection" ->
            IF Strip(c.selected_text) = "" THEN Result(NoOutcome, EmptyTextError)
            ELSE Result(NoOutcome, UnexpectedKeywordError)
      [] c.kind = "with_fallback" ->
            IF Strip(c.question) = "" THEN Result(NoOutcome, EmptyTextError)
            ELSE LET p == QueryPoints(points, Embedding(c.question), None, c.language,
                                      c.limit)
                     f == QueryPoints(points, Embedding(c.question), None,
                                      c.fallback_language, c.limit - Len(p))
                 IN IF Len(p) >= c.min_results
                    THEN Result(Outcome(p, FALSE), NoError)
                    ELSE Result(Outcome(Take(p \o f, c.limit), TRUE), NoError)

\* C10: of requests whose coroutines interleave at their collaborator calls,
\* each ends with the chunks and fallback_applied (or the exception) it ends
\* with when run alone against the same collection, and its collaborator
\* calls are those of its own arguments.
C10_SameAsAlone ==
    \A r \in AllRequests :
        (Finished(r) /\ provider_err[r] = NoError)
        => /\ Result(ret[r], err[r]) = RunAlone(req[r], collection)
           /\ \A i \in 1..Len(calls[r]) :
                 /\ calls[r][i].op = "embed"
                    => calls[r][i].text \in {req[r].question, req[r].selected_text}
                 /\ calls[r][i].op = "search"
                    => calls[r][i].vector = Embedding(req[r].question)

\* A fallback search returned its merged outcome while the other request, a
\* different call, was suspended at its own search.
C10_Witness ==
    \E r, s \in AllRequests :
        /\ r # s
        /\ req[r].kind = "with_fallback"
        /\ ret[r].returned
        /\ ret[r].fallback_applied
        /\ Len(ret[r].chunks) > Len(primary[r])
        /\ req[s].kind = "whole_book"
        /\ pc[s] = "wb_await_search"

\* C11: calculate_confidence returns "low" whenever fallback_applied is true,
\* whatever the count; otherwise "high" for 5 or more chunks, "medium" for 3
\* or 4, "low" for fewer than 3.
C11_ConfidenceTiers ==
    (fn_call.fn = "calculate_confidence" /\ fn_pc # "called")
    => /\ fn_pc = "returned"
       /\ fn_result =
            (IF fn_call.fallback_applied THEN "low"
             ELSE IF fn_call.num_chunks >= 5 THEN "high"
             ELSE IF fn_call.num_chunks \in {3, 4} THEN "medium"
             ELSE "low")

\* calculate_confidence(5, True) returned "low".
C11_Witness ==
    /\ fn_call.fn = "calculate_confidence"
    /\ fn_call.num_chunks = 5
    /\ fn_call.fallback_applied
    /\ fn_pc = "returned"
    /\ fn_result = "low"

\* The chunks of a list whose text is not empty or whitespace-only.
NonEmptyChunks(chunks) == SelectSeq(chunks, LAMBDA c : c.text.stripped_len > 0)

\* C12: extract_citations returns no citation of a chunk whose text is empty
\* or whitespace-only, and returns min(max_citations, number of chunks with
\* non-empty text) citations.
C12_CitationCount ==
    (fn_call.fn = "extract_citations" /\ fn_pc # "called")
    => /\ fn_pc = "returned"
       /\ \A i \in 1..Len(fn_result) : fn_result[i].text.stripped_len > 0
       /\ Len(fn_result) =
            Min(fn_call.max_citations, Len(NonEmptyChunks(fn_call.chunks)))

\* The first occurrence of each doc_path of a chunk list, in order.
RECURSIVE FirstOccurrences(_, _)
FirstOccurrences(chunks, seen_docs) ==
    IF chunks = <<>> THEN <<>>
    ELSE IF Head(chunks).doc_path \in seen_docs
         THEN FirstOccurrences(Tail(chunks), seen_docs)
         ELSE <<[doc_path |-> Head(chunks).doc_path, heading |-> Head(chunks).heading]>>
              \o FirstOccurrences(Tail(chunks), seen_docs \cup {Head(chunks).doc_path})

\* C13: for a non-empty chunk list format_sources_section lists the first
\* min(5, d) distinct doc_paths in order of first occurrence, each with the
\* heading of the first chunk of that doc_path.
C13_SourcesDeduplicated ==
    (/\ fn_call.fn = "format_sources_section"
     /\ fn_call.chunks # <<>>
     /\ fn_pc # "called")
    => /\ fn_pc = "returned"
       /\ fn_result.entries = Take(FirstOccurrences(fn_call.chunks, {}), 5)

\* The positions of the document whose tokens are in a chunk.
Covered(chunk) ==
    {q \in 1..Len(document) : chunk.from <= q /\ q < chunk.from + chunk.token_count}

\* C14: the chunks chunk_document returns cover the document: every token,
\* those in front of the first heading included, is in at least one chunk.
C14_CoversDocument ==
    (chunker.kind = "markdown" /\ cd_pc = "returned")
    => \A q \in 1..Len(document) :
          \E i \in 1..Len(cd_chunks) : q \in Covered(cd_chunks[i])

\* C15: a chunker whose chunk_overlap is not smaller than its chunk_size is
\* rejected: it is never built, no chunk_document call under it appends a
\* chunk or enters the splitting loop.
C15_InvalidConfigurationRejected ==
    (chunker.kind = "markdown" /\ chunker.chunk_overlap >= chunker.chunk_size)
    => /\ cd_pc \in {"new", "raised"}
       /\ cd_chunks = <<>>
       /\ sp.chunks = <<>>

TokenCountBounded(chunks) ==
    \A i \in 1..Len(chunks) :
        0 < chunks[i].token_count /\ chunks[i].token_count <= chunker.chunk_size

\* The number of tokens of the section of heading number i.
SectionTokens(i) == SectionEnd(document, i) - Headings(document)[i] + 1

\* C16: every chunk chunk_document returns has 0 < token_count <= chunk_size,
\* as has every chunk appended on the way under chunk_overlap < chunk_size;
\* a section of exactly chunk_size tokens is returned as one whole chunk.
C16_TokenCountBounded ==
    chunker.kind = "markdown"
    => /\ cd_pc = "returned" => TokenCountBounded(cd_chunks)
       /\ chunker.chunk_overlap < chunker.chunk_size
          => (TokenCountBounded(cd_chunks) /\ TokenCountBounded(sp.chunks))
       /\ cd_pc = "returned"
          => \A i \in 1..Len(Headings(document)) :
                SectionTokens(i) = chunker.chunk_size
                => \E j \in 1..Len(cd_chunks) :
                      /\ cd_chunks[j] = TextChunk(Headings(document)[i],
                                                  Headings(document)[i],
                                                  cd_chunks[j].chunk_index,
                                                  chunker.chunk_size)
                      /\ \A k \in 1..Len(cd_chunks) :
                            cd_chunks[k].heading = cd_chunks[j].heading => k = j

\* A document returned as a whole section of exactly chunk_size tokens and
\* the windows of a longer one.
C16_Witness ==
    /\ chunker.kind = "markdown"
    /\ cd_pc = "returned"
    /\ \E i \in 1..Len(Headings(document)) : SectionTokens(i) = chunker.chunk_size
    /\ \E i \in 1..Len(Headings(document)) : SectionTokens(i) > chunker.chunk_size
    /\ \E j \in 1..Len(cd_chunks) : cd_chunks[j].token_count < chunker.chunk_size

\* C17: the chunks chunk_document returns carry chunk_index 0, 1, ..., n-1 in
\* list order, whichever sections were kept whole and whichever were split.
C17_DenseChunkIndex ==
    (chunker.kind = "markdown" /\ cd_pc = "returned")
    => \A i \in 1..Len(cd_chunks) : cd_chunks[i].chunk_index = i - 1

\* A whole section follows the windows of a split one.
C17_Witness ==
    /\ chunker.kind = "markdown"
    /\ cd_pc = "returned"
    /\ \E i \in 1..(Len(cd_chunks) - 2) :
          /\ cd_chunks[i].heading = cd_chunks[i + 1].heading
          /\ cd_chunks[i + 2].heading # cd_chunks[i].heading
          /\ cd_chunks[i + 2].chunk_index = i + 1

\* The windows of a section in the returned chunks, by its heading.
WindowsOf(heading) == SelectSeq(cd_chunks, LAMBDA c : c.heading = heading)

\* The windows w of the tokens from..from+total_tokens-1 are consecutive
\* ranges of chunk_size tokens, each starting chunk_overlap tokens before the
\* end of the one before, the last one ending at the last token.
ConsecutiveWindows(w, from, total_tokens) ==
    /\ Len(w) >= 2
    /\ w[1].from = from
    /\ \A i \in 1..(Len(w) - 1) :
          /\ w[i].token_count = chunker.chunk_size
          /\ w[i + 1].from = w[i].from + w[i].token_count - chunker.chunk_overlap
    /\ w[Len(w)].from + w[Len(w)].token_count = from + total_tokens
    /\ w[Len(w)].token_count > 0

\* C18: a section of more than chunk_size tokens is returned as consecutive
\* windows: all but the last of chunk_size tokens, each starting
\* chunk_overlap tokens before the end of the previous one, the last ending
\* at the last token of the section, all tagged with the section's heading.
C18_OverlappingWindows ==
    (chunker.kind = "markdown" /\ cd_pc = "returned")
    => /\ \A i \in 1..Len(Headings(document)) :
             SectionTokens(i) > chunker.chunk_size
             => ConsecutiveWindows(WindowsOf(Headings(document)[i]),
                                   Headings(document)[i], SectionTokens(i))
       /\ (Headings(document) = <<>> /\ Len(document) > chunker.chunk_size)
          => ConsecutiveWindows(WindowsOf(Introduction), 1, Len(document))

\* A section returned as three windows that overlap.
C18_Witness ==
    /\ chunker.kind = "markdown"
    /\ cd_pc = "returned"
    /\ chunker.chunk_overlap > 0
    /\ \E i \in 1..Len(Headings(document)) :
          /\ SectionTokens(i) > chunker.chunk_size
          /\ Len(WindowsOf(Headings(document)[i])) >= 3

\* C19: a chat request whose retrieval finds no chunk does not raise: it
\* ends with the "not enough information" response, without citations, and
\* issues no generation call.
C19_EmptyResultResponse ==
    \A r \in AllRequests :
        (/\ req[r].kind \in {"chat", "endpoint"}
         /\ req[r].mode = "whole-book"
         /\ req[r].kind = "endpoint" => EndpointValidation(req[r]) = NoError
         /\ QueryPoints(collection, Embedding(req[r].question), None, None,
                        CHUNK_RETRIEVAL_LIMIT) = <<>>
         /\ Finished(r)
         /\ AllCallsReturned(r))
        => /\ pc[r] = "returned"
           /\ \A i \in 1..Len(calls[r]) : calls[r][i].op # "generate"

\* A request field that is not given, empty or whitespace-only.
Absent(value) == value \in {None, "", " "}

C21_ContextBlocks ==
    (fn_call.fn = "build_context" /\ fn_pc # "called")
    => /\ fn_pc = "returned"
       /\ Len(fn_result) = Len(fn_call.chunks)
       /\ \A i \in 1..Len(fn_call.chunks) :
             /\ fn_result[i].source = i
             /\ fn_result[i].document = fn_call.chunks[i].doc_path
             /\ fn_result[i].section = fn_call.chunks[i].heading
             /\ fn_result[i].content = fn_call.chunks[i].text

\* Three chunks, two of one document, rendered as Source 1, 2, 3.
C21_Witness ==
    /\ fn_call.fn = "build_context"
    /\ fn_pc = "returned"
    /\ Len(fn_call.chunks) = 3
    /\ fn_call.chunks[1].doc_path = fn_call.chunks[2].doc_path
    /\ fn_call.chunks[1] # fn_call.chunks[3]
    /\ fn_result[3].source = 3

\* C22: upsert_embeddings is idempotent: a call that stores the chunks the
\* call before it stored leaves the collection with the points it had after
\* that call, and the collection never holds two points of one chunk.
C22_UpsertIdempotent ==
    /\ \A i \in 1..(Len(up.history) - 1) :
          up.history[i + 1].chunks = up.history[i].chunks
          => up.history[i + 1].collection = up.history[i].collection
    /\ \A p, q \in collection : p.chunk_id = q.chunk_id => p = q

\* C23: whenever search_with_fallback returns fallback_applied = true, the
\* returned list contains at least one result in the fallback language.
C23_FallbackResultPresent ==
    \A r \in AllRequests :
        (req[r].kind = "with_fallback" /\ ret[r].returned /\ ret[r].fallback_applied)
        => \E i \in 1..Len(ret[r].chunks) :
               ret[r].chunks[i].language = req[r].fallback_language

\* The results the primary-language search of search_with_fallback gives.
PrimarySearchGives(r) ==
    QueryPoints(collection, Embedding(req[r].question), None, req[r].language,
                req[r].limit)

\* C24: when the primary-language search of search_with_fallback returns at
\* least min_results results, no fallback search is issued and the primary
\* results are returned as they are with fallback_applied = false.
C24_NoFallbackWhenEnough ==
    \A r \in AllRequests :
        (/\ req[r].kind = "with_fallback"
         /\ Len(Searches(r)) >= 1
         /\ Len(PrimarySearchGives(r)) >= req[r].min_results)
        => /\ Len(Searches(r)) = 1
           /\ Searches(r)[1].language = req[r].language
           /\ pc[r] \notin {"swf_await_embed_fb", "swf_await_search_fb"}
           /\ ret[r].returned
              => /\ ret[r].chunks = PrimarySearchGives(r)
                 /\ ~ret[r].fallback_applied

\* The primary search returned exactly min_results results, fewer than limit,
\* and they were returned without a second search.
C24_Witness ==
    \E r \in AllRequests :
        /\ req[r].kind = "with_fallback"
        /\ ret[r].returned
        /\ req[r].language # req[r].fallback_language
        /\ Len(PrimarySearchGives(r)) = req[r].min_results
        /\ req[r].min_results < req[r].limit
        /\ Len(Searches(r)) = 1
        /\ ~ret[r].fallback_applied

\* C27: whole-book retrieval and search_with_fallback never return more
\* than limit chunks, and no search is asked for a negative number of
\* results (the searches of the model return at most what they are asked).
C27_AtMostLimit ==
    \A r \in AllRequests :
        req[r].kind \in {"whole_book", "with_fallback"}
        => /\ ret[r].returned => Len(ret[r].chunks) <= req[r].limit
           /\ \A i \in 1..Len(Searches(r)) : Searches(r)[i].limit >= 0

\* The primary search filled the limit without reaching min_results: the
\* fallback search was asked for 0 results and limit chunks were returned.
C27_Witness ==
    \E r \in AllRequests :
        /\ req[r].kind = "with_fallback"
        /\ ret[r].returned
        /\ ret[r].fallback_applied
        /\ Len(Searches(r)) = 2
        /\ Searches(r)[2].limit = 0
        /\ Len(ret[r].chunks) = req[r].limit

\* C28: the merged list search_with_fallback returns never contains the
\* same chunk twice, also when primary_language = fallback_language.
C28_NoDuplicateChunks ==
    \A r \in AllRequests :
        (req[r].kind = "with_fallback" /\ ret[r].returned)
        => \A i, j \in 1..Len(ret[r].chunks) :
               i # j => ret[r].chunks[i] # ret[r].chunks[j]

\* C29: save_chat_interaction is all-or-nothing: once a call for an
\* identified user has ended, the session, the user message and the
\* assistant message are all stored or none of them is; a call for an
\* anonymous user (userId null or blank) stores nothing.
C29_AllOrNothing ==
    chat_db.pc \in {"returned", "raised"}
    => IF should_persist(chat_db.user_id)
       THEN \/ chat_db.committed = chat_db.before
            \/ chat_db.committed
                 = chat_db.before
                   \cup {SessionRow(chat_db.session_id, chat_db.mode),
                         MessageRow(chat_db.session_id, "user"),
                         MessageRow(chat_db.session_id, "assistant")}
       ELSE chat_db.committed = chat_db.before

\* C30: after any sequence of _cache_audio calls the cache holds at most
\* MAX_CACHE_SIZE entries and the entry stored last can be retrieved.
C30_CacheBounded ==
    /\ Len(audio_cache) <= MAX_CACHE_SIZE
    /\ tts.calls > 0 => GetCachedAudio(tts.audio_id) = tts.audio

\* The call that found the cache full: a fifth was deleted, the new entry
\* stored, and it is the last of the cache.
C30_Witness ==
    /\ tts.calls = MAX_CACHE_SIZE + 1
    /\ Len(audio_cache) = MAX_CACHE_SIZE - (MAX_CACHE_SIZE \div 5) + 1
    /\ audio_cache[Len(audio_cache)].audio = tts.audio
    /\ audio_cache[1].audio_id = (MAX_CACHE_SIZE \div 5) + 1

\* C25: under a configuration with 0 <= chunk_overlap < chunk_size,
\* chunk_document terminates, and every pass of the splitting loop that
\* goes on to another pass starts the next window strictly further on.
C25_Terminates ==
    /\ (chunker.kind = "markdown" /\ chunker.chunk_overlap < chunker.chunk_size)
         ~> (cd_pc = "returned")
    /\ [][(/\ chunker.kind = "markdown"
           /\ chunker.chunk_overlap < chunker.chunk_size
           /\ cd_pc = "split"
           /\ cd_pc' = "split")
          => sp'.current_pos > sp.current_pos]_vars

\* A call returned after a section was split into three windows or more
\* that overlap.
C25_Witness ==
    /\ chunker.kind = "markdown"
    /\ chunker.chunk_overlap > 0
    /\ chunker.chunk_overlap < chunker.chunk_size
    /\ cd_pc = "returned"
    /\ Len(sp.chunks) >= 3

\* C26: a chat request that passes the endpoint's validation and whose
\* collaborators do not fail is delivered a response, and in every response
\* delivered fallbackApplied = true implies confidence = "low".
C26_FallbackImpliesLow ==
    \A r \in AllRequests :
        (/\ req[r].kind = "endpoint"
         /\ EndpointValidation(req[r]) = NoError
         /\ Finished(r)
         /\ AllCallsReturned(r))
        => /\ ret[r].returned
           /\ ret[r].fallback_applied
              => calculate_confidence(Len(ret[r].chunks), ret[r].fallback_applied) = "low"

====
